---- MODULE Spec2Model ----
(***************************************************************************)
(* Phoenix Workout API (backend/main.py): the exercise catalog, the plan   *)
(* generator, the completion recorder and the six HTTP routes.             *)
(*                                                                         *)
(* Conventions                                                             *)
(*   Optional[T]   None is <<>>, a present value v is <<v>>  (so that a    *)
(*                 present empty string differs from an absent one).       *)
(*   text that the code inspects character by character (the exercise      *)
(*   types that upper() is compared with, uuid hex digits, plan ids) is a  *)
(*   sequence of one-character strings; other text is a TLA+ string.       *)
(*   datetime      naive instants, in whole seconds.                       *)
(*   float kg      tenths of a kilogram (22.5 kg is 225).                  *)
(* Each route handler is one atomic action: no handler reads or writes     *)
(* anything another handler writes, so finer interleavings add no states.  *)
(* Requests are well typed (the pydantic models of lines 70-128 accept     *)
(* them); request-body schema failures are the framework's, not modelled.  *)
(***************************************************************************)
EXTENDS Integers, Sequences, FiniteSets, TLC

VARIABLES
    catalog,        \* the module-level list HYBRID_EXERCISE_LIBRARY
    request,        \* the request handled last
    response,       \* the response sent for it
    uuids_issued,   \* history: the uuid4() values drawn so far, one per plan
    first_plan,     \* history: content of the first plan returned (None before)
    logged          \* history: identities whose completion log got a summary

vars == <<catalog, request, response, uuids_issued, first_plan, logged>>

None == <<>>
Some(v) == <<v>>

\* ---------------------------------------------------------------- bounds
MaxSets == 2          \* longest log.sets
MaxFilterLen == 3     \* longest enumerated exercise_type filter
MaxPlans == 2         \* plans generated in one run
MaxClock == 1         \* datetime.utcnow() readings are 0..MaxClock
PlanIdHexLen == 1     \* hex digits kept by hex[:8], scaled down
MaxLimit == 1         \* limit query values are 0..MaxLimit

UuidHexLen == PlanIdHexLen + 1      \* uuid4().hex is longer than its prefix
HexDigits == {"0", "f"}
SecondsPerDay == 86400
Users == {"u1", "u2"}
HeaderValues == {None, Some("")} \cup {Some(u) : u \in Users}
\* completed_at samples: 0 s, 59 s, 42 min, 24 h after some instant T; started_at
\* samples: T and T + 59 s (so a log can end before it starts)
Instants == {0, 59, 2520, SecondsPerDay}
StartInstants == {0, 59}

RECURSIVE SeqsUpTo(_, _)
SeqsUpTo(S, n) ==
    IF n = 0 THEN {<<>>}
    ELSE LET shorter == SeqsUpTo(S, n - 1)
         IN  shorter \cup {Append(s, x) : s \in {t \in shorter : Len(t) = n - 1}, x \in S}

SeqsOfLen(S, n) == {s \in SeqsUpTo(S, n) : Len(s) = n}

\* ------------------------------------------------------------ ExerciseType
VITRUVIAN  == <<"V","I","T","R","U","V","I","A","N">>
DUMBBELL   == <<"D","U","M","B","B","E","L","L">>
BARBELL    == <<"B","A","R","B","E","L","L">>
BODYWEIGHT == <<"B","O","D","Y","W","E","I","G","H","T">>
TRX        == <<"T","R","X">>
MACHINE    == <<"M","A","C","H","I","N","E">>
REST_TIMER == <<"R","E","S","T","_","T","I","M","E","R">>

ExerciseDefinition(id, name, type, muscle, equipment) ==
    [id |-> id, name |-> name, exercise_type |-> type,
     muscle_group |-> muscle, equipment |-> equipment]

HYBRID_EXERCISE_LIBRARY ==
    << ExerciseDefinition("db-chest-press", "Dumbbell Chest Press", DUMBBELL, "CHEST", "DUMBBELL"),
       ExerciseDefinition("db-row", "Dumbbell Row", DUMBBELL, "BACK", "DUMBBELL"),
       ExerciseDefinition("db-shoulder-press", "Dumbbell Shoulder Press", DUMBBELL, "SHOULDERS", "DUMBBELL"),
       ExerciseDefinition("db-rdl", "Romanian Deadlift (DB)", DUMBBELL, "HAMSTRINGS", "DUMBBELL"),
       ExerciseDefinition("db-lateral-raise", "Lateral Raise", DUMBBELL, "SHOULDERS", "DUMBBELL"),
       ExerciseDefinition("db-bicep-curl", "Dumbbell Bicep Curl", DUMBBELL, "BICEPS", "DUMBBELL"),
       ExerciseDefinition("db-tricep-kickback", "Tricep Kickback", DUMBBELL, "TRICEPS", "DUMBBELL"),
       ExerciseDefinition("db-goblet-squat", "Goblet Squat", DUMBBELL, "QUADS", "DUMBBELL"),
       ExerciseDefinition("bw-pushup", "Push-Up", BODYWEIGHT, "CHEST", "BODYWEIGHT"),
       ExerciseDefinition("bw-pullup", "Pull-Up", BODYWEIGHT, "BACK", "BODYWEIGHT"),
       ExerciseDefinition("bw-dip", "Dip", BODYWEIGHT, "TRICEPS", "BODYWEIGHT"),
       ExerciseDefinition("bw-plank", "Plank", BODYWEIGHT, "CORE", "BODYWEIGHT"),
       ExerciseDefinition("bw-squat", "Bodyweight Squat", BODYWEIGHT, "QUADS", "BODYWEIGHT"),
       ExerciseDefinition("bw-lunge", "Reverse Lunge", BODYWEIGHT, "QUADS", "BODYWEIGHT"),
       ExerciseDefinition("bw-glute-bridge", "Glute Bridge", BODYWEIGHT, "GLUTES", "BODYWEIGHT"),
       ExerciseDefinition("trx-row", "TRX Row", TRX, "BACK", "TRX"),
       ExerciseDefinition("trx-chest-press", "TRX Chest Press", TRX, "CHEST", "TRX"),
       ExerciseDefinition("trx-bicep-curl", "TRX Bicep Curl", TRX, "BICEPS", "TRX"),
       ExerciseDefinition("trx-squat", "TRX Squat", TRX, "QUADS", "TRX"),
       ExerciseDefinition("trx-plank", "TRX Plank", TRX, "CORE", "TRX"),
       ExerciseDefinition("rest-60", "Rest (60 sec)", REST_TIMER, "RECOVERY", "NONE"),
       ExerciseDefinition("rest-90", "Rest (90 sec)", REST_TIMER, "RECOVERY", "NONE"),
       ExerciseDefinition("rest-120", "Rest (2 min)", REST_TIMER, "RECOVERY", "NONE") >>

\* ------------------------------------------------------------------- auth
HTTPException(status_code, detail) ==
    [status |-> status_code, body |-> [detail |-> detail]]

\* variant: tests `is None`, so an empty header value passes
get_user_id_none_only(x_user_id) ==
    IF x_user_id = None
    THEN [raised |-> TRUE, error |-> HTTPException(401, "X-User-Id header required")]
    ELSE [raised |-> FALSE, value |-> x_user_id[1]]

\* the dependency: either the caller's id or the exception it raises
get_user_id(x_user_id) ==
    IF x_user_id = None \/ x_user_id = Some("")
    THEN [raised |-> TRUE, error |-> HTTPException(401, "X-User-Id header required")]
    ELSE [raised |-> FALSE, value |-> x_user_id[1]]

OK(body) == [status |-> 200, body |-> body]

\* ---------------------------------------------------------- str.upper()
LowerCase == <<"a","b","c","d","e","f","g","h","i","j","k","l","m",
               "n","o","p","q","r","s","t","u","v","w","x","y","z">>
UpperCase == <<"A","B","C","D","E","F","G","H","I","J","K","L","M",
               "N","O","P","Q","R","S","T","U","V","W","X","Y","Z">>

UpperChar(c) ==
    IF \E i \in DOMAIN LowerCase : LowerCase[i] = c
    THEN UpperCase[CHOOSE i \in DOMAIN LowerCase : LowerCase[i] = c]
    ELSE c

Upper(s) == [i \in DOMAIN s |-> UpperChar(s[i])]

\* ------------------------------------------------------------ plan models
PlannedSet(set_number, set_type, target_reps, target_weight_kg, rest_seconds) ==
    [set_number |-> set_number, set_type |-> set_type, target_reps |-> target_reps,
     target_weight_kg |-> target_weight_kg, target_rpe |-> None,
     rest_seconds |-> rest_seconds]

PlannedExercise(order_index, exercise_id, exercise_name, exercise_type, muscle_group, sets, rest_seconds, cable_config) ==
    [order_index |-> order_index, exercise_id |-> exercise_id,
     exercise_name |-> exercise_name, exercise_type |-> exercise_type,
     muscle_group |-> muscle_group, sets |-> sets, rest_seconds |-> rest_seconds,
     cable_config |-> cable_config, is_travel_substitute |-> FALSE]

\* the exercises list literal of generate_workout_plan
TemplateExercises ==
    << PlannedExercise(0, "cable-chest-press", "Cable Chest Press", VITRUVIAN, "CHEST",
           << PlannedSet(1, "WARMUP",   Some(15), Some(100), 60),
              PlannedSet(2, "STANDARD", Some(10), Some(200), 60),
              PlannedSet(3, "STANDARD", Some(10), Some(200), 60),
              PlannedSet(4, "STANDARD", Some(8),  Some(225), 60) >>,
           60, Some("DOUBLE")),
       PlannedExercise(1, "rest-90", "Rest", REST_TIMER, "RECOVERY",
           << PlannedSet(1, "REST", None, None, 90) >>,
           90, Some("DOUBLE")),
       PlannedExercise(2, "cable-shoulder-press", "Cable Shoulder Press", VITRUVIAN, "SHOULDERS",
           << PlannedSet(1, "STANDARD", Some(10), Some(150), 60),
              PlannedSet(2, "STANDARD", Some(10), Some(150), 60),
              PlannedSet(3, "STANDARD", Some(8),  Some(175), 60) >>,
           60, Some("DOUBLE")),
       PlannedExercise(3, "rest-60", "Rest", REST_TIMER, "RECOVERY",
           << PlannedSet(1, "REST", None, None, 60) >>,
           60, Some("DOUBLE")),
       PlannedExercise(4, "bw-pushup", "Push-Up", BODYWEIGHT, "CHEST",
           << PlannedSet(1, "AMRAP", None, None, 60),
              PlannedSet(2, "AMRAP", None, None, 60) >>,
           60, Some("DOUBLE")) >>

\* uuid4().hex: UuidHexLen hex digits
Uuids == SeqsOfLen(HexDigits, UuidHexLen)

\* f"plan_{hex[:8]}"
PlanIdOf(hex) == <<"p","l","a","n","_">> \o SubSeq(hex, 1, PlanIdHexLen)

\* variant: a non-empty history raises the last chest-press set by 2.5 kg
generate_workout_plan_progressive(user_id, user_history, hex, now) ==
    [plan_id |-> PlanIdOf(hex),
     user_id |-> user_id,
     generated_at |-> now,
     workout_name |-> "Upper Push - Day 1",
     estimated_duration_minutes |-> 35,
     exercises |-> IF user_history # None /\ user_history # Some(<<>>)
                   THEN [TemplateExercises EXCEPT ![1].sets[4].target_weight_kg = Some(250)]
                   ELSE TemplateExercises,
     ai_notes |-> Some("Progressive overload target: +2.5kg on Cable Chest Press if all 4 sets completed at RPE <8.")]

\* hex is the uuid4() drawn by this call, now its datetime.utcnow() reading
generate_workout_plan(user_id, user_history, hex, now) ==
    [plan_id |-> PlanIdOf(hex),
     user_id |-> user_id,
     generated_at |-> now,
     workout_name |-> "Upper Push - Day 1",
     estimated_duration_minutes |-> 35,
     exercises |-> TemplateExercises,
     ai_notes |-> Some("Progressive overload target: +2.5kg on Cable Chest Press if all 4 sets completed at RPE <8.")]

\* ------------------------------------------------------ completion models
CompletedSetLog(exercise_id, set_number, is_pr) ==
    [exercise_id |-> exercise_id, set_number |-> set_number, is_pr |-> is_pr]

WorkoutCompletionLog(plan_id, user_id, started_at, completed_at, sets) ==
    [plan_id |-> plan_id, user_id |-> user_id, started_at |-> started_at,
     completed_at |-> completed_at, sets |-> sets]

\* timedelta normalises to days, 0 <= seconds < 86400 (microseconds are 0 here)
TimeDelta(later, earlier) ==
    [days |-> (later - earlier) \div SecondsPerDay,
     seconds |-> (later - earlier) % SecondsPerDay]

Fire == "(U+1F525) "       \* the fire emoji and the blank after it

\* str() of a non-negative int
str(n) == ToString(n)

\* variant: prs is not filtered by is_pr
CompletionSummary_unfiltered_prs(log, user_id) ==
    LET duration_minutes == TimeDelta(log.completed_at, log.started_at).seconds \div 60
        total_sets == Len(log.sets)
        prs == log.sets
    IN  [status |-> "logged",
         user_id |-> user_id,
         plan_id |-> log.plan_id,
         sets_logged |-> total_sets,
         duration_minutes |-> duration_minutes,
         new_prs |-> Len(prs),
         message |-> "Great work. " \o str(total_sets) \o " sets logged. "
                     \o (IF prs # <<>> THEN Fire \o str(Len(prs)) \o " new PRs!"
                                       ELSE "Keep pushing.")]

\* the body of log_workout_completion
CompletionSummary(log, user_id) ==
    LET duration_minutes == TimeDelta(log.completed_at, log.started_at).seconds \div 60
        total_sets == Len(log.sets)
        prs == SelectSeq(log.sets, LAMBDA s : s.is_pr)
    IN  [status |-> "logged",
         user_id |-> user_id,
         plan_id |-> log.plan_id,
         sets_logged |-> total_sets,
         duration_minutes |-> duration_minutes,
         new_prs |-> Len(prs),
         message |-> "Great work. " \o str(total_sets) \o " sets logged. "
                     \o (IF prs # <<>> THEN Fire \o str(Len(prs)) \o " new PRs!"
                                       ELSE "Keep pushing.")]

\* ---------------------------------------------------------- catalog reads
\* variant: compares with the filter as given, without upper()
HybridExercises_no_upper(library, exercise_type) ==
    LET exercises == SelectSeq(library, LAMBDA e : e.exercise_type # VITRUVIAN)
    IN  IF exercise_type # None /\ exercise_type # Some(<<>>)
        THEN SelectSeq(exercises, LAMBDA e : e.exercise_type = exercise_type[1])
        ELSE exercises

\* e.exercise_type != VITRUVIAN, then (if the filter is truthy) == filter.upper()
HybridExercises(library, exercise_type) ==
    LET exercises == SelectSeq(library, LAMBDA e : e.exercise_type # VITRUVIAN)
    IN  IF exercise_type # None /\ exercise_type # Some(<<>>)
        THEN SelectSeq(exercises, LAMBDA e : e.exercise_type = Upper(exercise_type[1]))
        ELSE exercises

\* variant: reports a workout for an identity whose log was accepted
UserHistory_from_log(user_id, limit) ==
    [user_id |-> user_id,
     workouts |-> IF user_id \in logged /\ limit > 0 THEN <<"workout">> ELSE <<>>,
     note |-> "History logging coming in V2 (Supabase integration)"]

\* the body of get_user_history
UserHistory(user_id, limit) ==
    [user_id |-> user_id, workouts |-> <<>>,
     note |-> "History logging coming in V2 (Supabase integration)"]

\* ------------------------------------------------------------ input sets
Clock == 0..MaxClock

Histories == {None, Some(<<>>), Some(<<[sets_logged |-> 6, new_prs |-> 1]>>)}

SetLogs ==
    {[i \in DOMAIN prs |-> CompletedSetLog("bw-pushup", i, prs[i])] :
        prs \in SeqsUpTo(BOOLEAN, MaxSets)}

LogPlanIds == {None, Some(PlanIdOf([i \in 1..UuidHexLen |-> "0"]))}

CompletionLogs ==
    {WorkoutCompletionLog(p, u, s, c, sets) :
        p \in LogPlanIds, u \in Users, s \in StartInstants, c \in Instants, sets \in SetLogs}

FilterAlphabet == {"t", "R", "x"}

NamedFilters ==
    {TRX, DUMBBELL, VITRUVIAN, BARBELL,
     <<"d","u","m","b","b","e","l","l">>,
     <<"B","o","d","y","W","e","i","g","h","t">>,
     <<"v","i","t","r","u","v","i","a","n">>,
     <<"r","e","s","t","_","t","i","m","e","r">>,
     <<"y","o","g","a">>}

Filters ==
    {None} \cup {Some(f) : f \in SeqsUpTo(FilterAlphabet, MaxFilterLen) \cup NamedFilters}

Limits == 0..MaxLimit

\* ------------------------------------------------------------------- Init
NoRequest == [endpoint |-> "none"]
NoResponse == [status |-> 0, body |-> None]

\* no request is being served: the next one can be taken
Idle == request = NoRequest

Init ==
    /\ catalog = HYBRID_EXERCISE_LIBRARY
    /\ request = NoRequest
    /\ response = NoResponse
    /\ uuids_issued = {}
    /\ first_plan = None
    /\ logged = {}

\* a plan less the three fields that name the call: plan_id, user_id, generated_at
PlanContent(plan) ==
    [workout_name |-> plan.workout_name,
     estimated_duration_minutes |-> plan.estimated_duration_minutes,
     exercises |-> plan.exercises,
     ai_notes |-> plan.ai_notes]

Remember(plan) == IF first_plan = None THEN Some(PlanContent(plan)) ELSE first_plan

\* ----------------------------------------------------------------- routes
\* GET /health
health ==
    /\ Idle
    /\ request' = [endpoint |-> "GET /health"]
    /\ response' = OK([status |-> "ok", service |-> "phoenix-workout-api",
                       version |-> "0.1.0"])
    /\ UNCHANGED <<catalog, uuids_issued, first_plan, logged>>

\* GET /workout/today
get_todays_workout ==
    /\ Idle
    /\ \E x_user_id \in HeaderValues :
        LET user_id == get_user_id(x_user_id) IN
        /\ request' = [endpoint |-> "GET /workout/today", x_user_id |-> x_user_id]
        /\ IF user_id.raised
           THEN /\ response' = user_id.error
                /\ UNCHANGED <<uuids_issued, first_plan>>
           ELSE /\ Cardinality(uuids_issued) < MaxPlans
                /\ \E hex \in Uuids \ uuids_issued, now \in Clock :
                      LET plan == generate_workout_plan(user_id.value, None, hex, now) IN
                      /\ response' = OK(plan)
                      /\ uuids_issued' = uuids_issued \cup {hex}
                      /\ first_plan' = Remember(plan)
        /\ UNCHANGED <<catalog, logged>>

\* generate_workout_plan called directly, with a history argument
call_generate_workout_plan ==
    /\ Idle
    /\ \E user_id \in Users, user_history \in Histories :
        /\ Cardinality(uuids_issued) < MaxPlans
        /\ request' = [endpoint |-> "generate_workout_plan", user_id |-> user_id,
                       user_history |-> user_history]
        /\ \E hex \in Uuids \ uuids_issued, now \in Clock :
              LET plan == generate_workout_plan(user_id, user_history, hex, now) IN
              /\ response' = OK(plan)
              /\ uuids_issued' = uuids_issued \cup {hex}
              /\ first_plan' = Remember(plan)
        /\ UNCHANGED <<catalog, logged>>

\* POST /workout/complete
log_workout_completion ==
    /\ Idle
    /\ \E x_user_id \in HeaderValues, log \in CompletionLogs :
        LET user_id == get_user_id(x_user_id) IN
        /\ request' = [endpoint |-> "POST /workout/complete", x_user_id |-> x_user_id,
                       log |-> log]
        /\ IF user_id.raised
           THEN /\ response' = user_id.error
                /\ UNCHANGED logged
           ELSE /\ response' = OK(CompletionSummary(log, user_id.value))
                /\ logged' = logged \cup {user_id.value}
        /\ UNCHANGED <<catalog, uuids_issued, first_plan>>

\* GET /exercises
get_exercise_library ==
    /\ Idle
    /\ request' = [endpoint |-> "GET /exercises"]
    /\ response' = OK(catalog)
    /\ UNCHANGED <<catalog, uuids_issued, first_plan, logged>>

\* GET /exercises/hybrid
get_hybrid_exercises ==
    /\ Idle
    /\ \E exercise_type \in Filters :
        /\ request' = [endpoint |-> "GET /exercises/hybrid", exercise_type |-> exercise_type]
        /\ response' = OK(HybridExercises(catalog, exercise_type))
        /\ UNCHANGED <<catalog, uuids_issued, first_plan, logged>>

\* GET /user/{user_id}/history
get_user_history ==
    /\ Idle
    /\ \E user_id \in Users, limit \in Limits :
        /\ request' = [endpoint |-> "GET /user/{user_id}/history", user_id |-> user_id,
                       limit |-> limit]
        /\ response' = OK(UserHistory(user_id, limit))
        /\ UNCHANGED <<catalog, uuids_issued, first_plan, logged>>

\* the response is sent; the handler's objects (plan, log, summary) are dropped
send_response ==
    /\ ~Idle
    /\ request' = NoRequest
    /\ response' = NoResponse
    /\ UNCHANGED <<catalog, uuids_issued, first_plan, logged>>

Next ==
    \/ health
    \/ get_todays_workout
    \/ call_generate_workout_plan
    \/ log_workout_completion
    \/ get_exercise_library
    \/ get_hybrid_exercises
    \/ get_user_history
    \/ send_response

Spec == Init /\ [][Next]_vars

\* ================================================================ claims
IsToday     == request.endpoint = "GET /workout/today"
IsGenerate  == request.endpoint = "generate_workout_plan"
IsComplete  == request.endpoint = "POST /workout/complete"
IsExercises == request.endpoint = "GET /exercises"
IsHybrid    == request.endpoint = "GET /exercises/hybrid"
IsHistory   == request.endpoint = "GET /user/{user_id}/history"

PlanReturned == (IsToday \/ IsGenerate) /\ response.status = 200
SummaryReturned == IsComplete /\ response.status = 200
ClientError == 400..499

\* C1: a completion log whose completed_at is earlier than its started_at is
\* rejected with a client error and gets no "logged" summary.
C1_ReversedLogRejected ==
    (IsComplete /\ request.log.completed_at < request.log.started_at)
        => response.status \in ClientError

\* C2: for completed_at >= started_at, duration_minutes is the floor of the whole
\* elapsed time in minutes, also when the elapsed time is a day or more.
C2_DurationIsElapsedMinutes ==
    (SummaryReturned /\ request.log.completed_at >= request.log.started_at)
        => response.body.duration_minutes =
               (request.log.completed_at - request.log.started_at) \div 60

\* C3: two calls of generate_workout_plan never return the same plan_id
\* (each member of uuids_issued is the uuid4() of one call).
C3_PlanIdsNeverCollide ==
    \A h1, h2 \in uuids_issued : h1 # h2 => PlanIdOf(h1) # PlanIdOf(h2)

PlanExerciseIds ==
    <<"cable-chest-press", "rest-90", "cable-shoulder-press", "rest-60", "bw-pushup">>

\* C4: whatever the user id and the history argument, a returned plan has the five
\* exercises cable-chest-press, rest-90, cable-shoulder-press, rest-60, bw-pushup
\* with order_index 0..4, and agrees with the first plan ever returned on
\* everything but plan_id, user_id and generated_at.
C4_PlanContentFixed ==
    PlanReturned =>
        LET plan == response.body IN
        /\ Len(plan.exercises) = 5
        /\ \A i \in 1..5 : /\ plan.exercises[i].order_index = i - 1
                           /\ plan.exercises[i].exercise_id = PlanExerciseIds[i]
        /\ first_plan = Some(PlanContent(plan))

\* a second plan, asked for with a non-empty history
C4_Witness ==
    /\ PlanReturned /\ IsGenerate
    /\ request.user_history \notin {None, Some(<<>>)}
    /\ Cardinality(uuids_issued) >= 2

NonVitruvian(library) == SelectSeq(library, LAMBDA e : e.exercise_type # VITRUVIAN)

\* C5 as stated: an absent filter gives the non-VITRUVIAN entries in catalog order,
\* any given filter string f gives those of them whose type is f upper-cased, and
\* no returned entry is VITRUVIAN.
C5_FilterSelectsUpperCasedType ==
    IsHybrid =>
        /\ response.body =
              IF request.exercise_type = None
              THEN NonVitruvian(catalog)
              ELSE SelectSeq(NonVitruvian(catalog),
                             LAMBDA e : e.exercise_type = Upper(request.exercise_type[1]))
        /\ \A i \in DOMAIN response.body : response.body[i].exercise_type # VITRUVIAN

\* C5 amended: an absent or empty filter gives the non-VITRUVIAN entries in catalog
\* order, a non-empty filter string f gives those of them whose type is f
\* upper-cased, and no returned entry is VITRUVIAN.
C5_NonEmptyFilterSelectsUpperCasedType ==
    IsHybrid =>
        /\ response.body =
              IF request.exercise_type \in {None, Some(<<>>)}
              THEN NonVitruvian(catalog)
              ELSE SelectSeq(NonVitruvian(catalog),
                             LAMBDA e : e.exercise_type = Upper(request.exercise_type[1]))
        /\ \A i \in DOMAIN response.body : response.body[i].exercise_type # VITRUVIAN

\* a mixed-case filter that selects the five TRX entries
C5_Witness ==
    /\ IsHybrid
    /\ request.exercise_type = Some(<<"t", "R", "x">>)
    /\ Len(response.body) = 5

NoIdentity == {None, Some("")}
NeedsIdentity(req) == req.endpoint \in {"GET /workout/today", "POST /workout/complete"}

C6_Answer ==
    NeedsIdentity(request) =>
        IF request.x_user_id \in NoIdentity
        THEN response = [status |-> 401, body |-> [detail |-> "X-User-Id header required"]]
        ELSE /\ response.status = 200
             /\ response.body.user_id = request.x_user_id[1]

C6_Step ==
    (NeedsIdentity(request') /\ request'.x_user_id \in NoIdentity)
        => UNCHANGED <<uuids_issued, first_plan, logged>>

\* C6: GET /workout/today and POST /workout/complete answer 401 to a request whose
\* identity header is absent or empty, and such a request generates no plan and
\* records no summary; with a non-empty header the request is served and the
\* plan (or summary) carries the header value as user_id.
C6_IdentityRequired == []C6_Answer /\ [][C6_Step]_vars

\* an empty header refused after plans were generated, and a plan for "u2"
C6_Witness ==
    /\ IsToday
    /\ uuids_issued # {}
    /\ \/ request.x_user_id = Some("") /\ response.status = 401
       \/ request.x_user_id = Some("u2") /\ response.body.user_id = "u2"

\* C7: every exercise_id of a returned plan is the id of a catalog entry.
C7_PlanExercisesInCatalog ==
    PlanReturned =>
        \A i \in DOMAIN response.body.exercises :
            \E j \in DOMAIN catalog :
                catalog[j].id = response.body.exercises[i].exercise_id

\* C8: a planned exercise whose exercise_id is a catalog id carries that entry's
\* name, exercise_type and muscle_group.
C8_DenormalizedFieldsMatchCatalog ==
    PlanReturned =>
        \A i \in DOMAIN response.body.exercises, j \in DOMAIN catalog :
            catalog[j].id = response.body.exercises[i].exercise_id =>
                /\ response.body.exercises[i].exercise_name = catalog[j].name
                /\ response.body.exercises[i].exercise_type = catalog[j].exercise_type
                /\ response.body.exercises[i].muscle_group = catalog[j].muscle_group

PrCount(sets) == Cardinality({i \in DOMAIN sets : sets[i].is_pr})

\* C9: an accepted completion log gets status "logged", sets_logged = the number
\* of its sets, new_prs = the number of them with is_pr, and a message giving the
\* set count and, exactly when new_prs > 0, the PR count (else "Keep pushing.").
C9_SummaryCounts ==
    SummaryReturned =>
        LET sets == request.log.sets
            body == response.body
        IN  /\ body.status = "logged"
            /\ body.sets_logged = Len(sets)
            /\ body.new_prs = PrCount(sets)
            /\ (sets = <<>> => body.sets_logged = 0 /\ body.new_prs = 0)
            /\ body.message =
                  IF PrCount(sets) > 0
                  THEN "Great work. " \o ToString(Len(sets)) \o " sets logged. "
                       \o Fire \o ToString(PrCount(sets)) \o " new PRs!"
                  ELSE "Great work. " \o ToString(Len(sets)) \o " sets logged. Keep pushing."

\* two sets, one of them a PR
C9_Witness ==
    /\ SummaryReturned
    /\ Len(request.log.sets) = 2
    /\ response.body.new_prs = 1

\* C10: whatever requests were served before, the catalog is the one of process
\* start, GET /exercises returns it entry for entry, and GET /user/{id}/history
\* returns no workouts, also for an identity whose completion log was accepted.
C10_NoRequestLeavesATrace ==
    /\ catalog = HYBRID_EXERCISE_LIBRARY
    /\ IsExercises => response.body = HYBRID_EXERCISE_LIBRARY
    /\ IsHistory => response.body.workouts = <<>>

\* history asked with limit > 0 for an identity with an accepted log, plans served
C10_Witness ==
    /\ IsHistory
    /\ request.user_id \in logged
    /\ request.limit > 0
    /\ uuids_issued # {}

====
